---- MODULE Spec2Model ----
(***************************************************************************)
(* Model of backend/app.py, the backend of the MCQ exam platform:          *)
(*   - setup_database, run once at import, which creates four tables in a  *)
(*     PostgreSQL database through one psycopg2 connection;                *)
(*   - the thirteen routes registered on the Flask application and their   *)
(*     view functions;                                                     *)
(*   - the rows the created schema admits (keys, UNIQUE, NOT NULL and      *)
(*     REFERENCES ... ON DELETE CASCADE as declared in the DDL).           *)
(***************************************************************************)
EXTENDS Integers, Sequences, FiniteSets, TLC

VARIABLES
    pc,         \* position of the process: import .. serving
    conn,       \* the connection of setup_database: "none" | "open" | "closed"
    cur,        \* its cursor: "none" | "open" | "closed"
    idx,        \* index of the next command of the for loop
    txn,        \* the connection's transaction: [state, created]
    db,         \* the committed catalog of the database: a set of table definitions
    log,        \* what this startup printed
    calls,      \* the database API calls this startup made, in order
    startups,   \* number of process starts so far
    dbBefore,   \* the catalog when this process started
    faults,     \* statement errors raised by the server so far
    outage,     \* whether some startup found the database unreachable
    routes,     \* the rules registered on the Flask application
    req,        \* the last request received
    resp,       \* the response returned to it
    store,      \* the rows of the four tables and their id sequences
    result      \* the last SQL statement a client ran: [op, table, status, cascaded]

vars == <<pc, conn, cur, idx, txn, db, log, calls, startups, dbBefore, faults,
          outage, routes, req, resp, store, result>>

procVars == <<pc, conn, cur, idx, txn, log, calls, startups, dbBefore, faults,
              outage, routes>>

(***************************************************************************)
(* Bounds of the model.                                                    *)
(***************************************************************************)
MaxStartups == 2
MaxFaults == 1
MaxSetId == 2
MaxUsers == 2
MaxSeq == 1
MaxRows == 3

Range(s) == {s[i] : i \in DOMAIN s}

NULL == {}
Val(v) == {v}

(***************************************************************************)
(* The DDL of setup_database: the tuple `commands`.                        *)
(***************************************************************************)
Column(name, type) ==
    [name |-> name, type |-> type, primary |-> FALSE, notnull |-> FALSE,
     unique |-> FALSE, default |-> "", references |-> {}]

PrimaryKey(col) == [col EXCEPT !.primary = TRUE, !.notnull = TRUE, !.unique = TRUE]
NotNull(col) == [col EXCEPT !.notnull = TRUE]
Unique(col) == [col EXCEPT !.unique = TRUE]
Default(col, v) == [col EXCEPT !.default = v]
ReferencesCascade(col, table, column) ==
    [col EXCEPT !.references =
        {[table |-> table, column |-> column, ondelete |-> "CASCADE"]}]

users_ddl ==
    [table |-> "users",
     columns |-> {
        PrimaryKey(Column("id", "SERIAL")),
        NotNull(Column("name", "VARCHAR(100)")),
        NotNull(Unique(Column("phone", "VARCHAR(11)"))),
        NotNull(Column("password_hash", "VARCHAR(255)")),
        Column("school", "VARCHAR(100)"),
        Default(Column("points", "INTEGER"), "0"),
        Default(Column("level", "INTEGER"), "1"),
        Default(Column("created_at", "TIMESTAMP"), "CURRENT_TIMESTAMP")}]

question_sets_ddl ==
    [table |-> "question_sets",
     columns |-> {
        PrimaryKey(Column("id", "SERIAL")),
        NotNull(Column("name", "VARCHAR(255)")),
        NotNull(Column("category", "VARCHAR(50)")),
        Default(Column("is_active", "BOOLEAN"), "FALSE"),
        Default(Column("exam_time_minutes", "INTEGER"), "30"),
        Default(Column("created_at", "TIMESTAMP"), "CURRENT_TIMESTAMP")}]

questions_ddl ==
    [table |-> "questions",
     columns |-> {
        PrimaryKey(Column("id", "SERIAL")),
        ReferencesCascade(Column("set_id", "INTEGER"), "question_sets", "id"),
        NotNull(Column("question_text", "TEXT")),
        NotNull(Column("options", "JSONB")),
        NotNull(Column("correct_option", "VARCHAR(255)"))}]

results_ddl ==
    [table |-> "results",
     columns |-> {
        PrimaryKey(Column("id", "SERIAL")),
        ReferencesCascade(Column("user_id", "INTEGER"), "users", "id"),
        ReferencesCascade(Column("set_id", "INTEGER"), "question_sets", "id"),
        NotNull(Column("score", "INTEGER")),
        NotNull(Column("total_marks", "INTEGER")),
        Default(Column("submitted_at", "TIMESTAMP"), "CURRENT_TIMESTAMP")}]

commandsReordered == <<users_ddl, questions_ddl, question_sets_ddl, results_ddl>>

commandsNoCascade ==
    LET NoAction(col) ==
            [col EXCEPT !.references =
                {[r EXCEPT !.ondelete = "NO ACTION"] : r \in col.references}]
        Strip(cmd) == [cmd EXCEPT !.columns = {NoAction(col) : col \in cmd.columns}]
    IN  <<users_ddl, question_sets_ddl, Strip(questions_ddl), Strip(results_ddl)>>

commands == <<users_ddl, question_sets_ddl, questions_ddl, results_ddl>>

(***************************************************************************)
(* The database server, as psycopg2 drives it: DDL is transactional, the   *)
(* first execute opens a transaction, a statement error leaves it aborted, *)
(* and COMMIT of an aborted transaction rolls it back.                     *)
(***************************************************************************)
TableNames(cat) == {c.table : c \in cat}

References(cmd) == UNION {col.references : col \in cmd.columns}

IdleTxn == [state |-> "idle", created |-> {}]

Visible(d, t) == IF t.state = "active" THEN d \cup t.created ELSE d

RefTargetOK(r, cat) ==
    \E c \in cat : /\ c.table = r.table
                   /\ \E col \in c.columns :
                         col.name = r.column /\ (col.primary \/ col.unique)

\* cur.execute("CREATE TABLE IF NOT EXISTS ..."): the outcome and the transaction after it.
Execute(cmd, d, t, inject) ==
    LET seen == Visible(d, t) IN
    IF t.state = "aborted" \/ inject
    THEN [ok |-> FALSE, txn |-> [state |-> "aborted", created |-> {}]]
    ELSE IF cmd.table \in TableNames(seen)
    THEN [ok |-> TRUE, txn |-> [state |-> "active", created |-> t.created]]
    ELSE IF \A r \in References(cmd) : RefTargetOK(r, seen)
    THEN [ok |-> TRUE, txn |-> [state |-> "active", created |-> t.created \cup {cmd}]]
    ELSE [ok |-> FALSE, txn |-> [state |-> "aborted", created |-> {}]]

\* conn.commit(): the catalog after it.
Commit(d, t) == IF t.state = "active" THEN d \cup t.created ELSE d

Call(op, table, ok) == [op |-> op, table |-> table, ok |-> ok]

(***************************************************************************)
(* The rows of the store.  A nullable column holds NULL ({}) or Val(v).    *)
(***************************************************************************)
Tables == {"users", "question_sets", "questions", "results"}

EmptyStore ==
    [users |-> {}, question_sets |-> {}, questions |-> {}, results |-> {},
     seq |-> [t \in Tables |-> 0]]

SampleStore ==
    [users |-> {[id |-> 1, phone |-> Val("01700000001")]},
     question_sets |-> {[id |-> 1]},
     questions |-> {[id |-> 1, set_id |-> Val(1)]},
     results |-> {[id |-> 1, user_id |-> Val(1), set_id |-> Val(1)]},
     seq |-> [t \in Tables |-> 1]]

NoStatement == [op |-> "", table |-> "", status |-> "none", cascaded |-> 0]

NoRequest == [method |-> "", path |-> "", tail |-> <<>>]
NoResponse == [status |-> 0, type |-> "", message |-> "", set_id |-> {}]

(***************************************************************************)
(* Process start: the module is imported against a database that is either *)
(* empty or was set up (and filled) by an earlier run.                     *)
(***************************************************************************)
Init ==
    /\ pc = "import"
    /\ conn = "none"
    /\ cur = "none"
    /\ idx = 1
    /\ txn = IdleTxn
    /\ \/ db = {} /\ store = EmptyStore
       \/ db = Range(commands) /\ store = SampleStore
    /\ log = <<>>
    /\ calls = <<>>
    /\ startups = 1
    /\ dbBefore = db
    /\ faults = 0
    /\ outage = FALSE
    /\ routes = {}
    /\ req = NoRequest
    /\ resp = NoResponse
    /\ result = NoStatement

(***************************************************************************)
(* setup_database, step by step.                                           *)
(***************************************************************************)
\* get_db_connection: psycopg2.connect either returns a connection or raises,
\* and the exception is printed and turned into None.
GetDbConnection ==
    /\ pc = "import"
    /\ \E reachable \in BOOLEAN :
          IF reachable
          THEN /\ conn' = "open"
               /\ log' = log
               /\ outage' = outage
          ELSE /\ conn' = "none"
               /\ log' = Append(log, "Database connection error")
               /\ outage' = TRUE
    /\ calls' = Append(calls, Call("connect", "", conn' = "open"))
    /\ pc' = "check"
    /\ UNCHANGED <<cur, idx, txn, db, startups, dbBefore, faults, routes, req,
                   resp, store, result>>

SetupCheckConnNoGuard ==
    /\ pc = "check"
    /\ pc' = "cursor"
    /\ UNCHANGED <<conn, cur, idx, txn, db, log, calls, startups, dbBefore, faults,
                   outage, routes, req, resp, store, result>>

\* if conn is None: print and return.
SetupCheckConn ==
    /\ pc = "check"
    /\ IF conn = "none"
       THEN /\ log' = Append(log, "Could not connect to the database. Aborting setup.")
            /\ pc' = "routes"
       ELSE /\ log' = log
            /\ pc' = "cursor"
    /\ UNCHANGED <<conn, cur, idx, txn, db, calls, startups, dbBefore, faults,
                   outage, routes, req, resp, store, result>>

\* cur = conn.cursor(); on None this raises AttributeError out of the import.
SetupCursor ==
    /\ pc = "cursor"
    /\ IF conn = "open"
       THEN /\ cur' = "open"
            /\ pc' = "loop"
       ELSE /\ cur' = cur
            /\ pc' = "crashed"
    /\ calls' = Append(calls, Call("cursor", "", conn = "open"))
    /\ UNCHANGED <<conn, idx, txn, db, log, startups, dbBefore, faults,
                   outage, routes, req, resp, store, result>>

LoopNextKeepGoing(ok, i) ==
    IF i < Len(commands)
    THEN [pc |-> "loop", idx |-> i + 1]
    ELSE [pc |-> IF ok THEN "print_ok" ELSE "except", idx |-> i]

\* try: for command in commands: cur.execute(command) ... except: where control
\* goes after the i-th execute.
LoopNext(ok, i) ==
    IF ~ok THEN [pc |-> "except", idx |-> i]
    ELSE IF i < Len(commands) THEN [pc |-> "loop", idx |-> i + 1]
    ELSE [pc |-> "print_ok", idx |-> i]

SetupExecute ==
    /\ pc = "loop"
    /\ \E inject \in BOOLEAN :
          /\ inject => faults < MaxFaults
          /\ LET cmd == commands[idx]
                 r == Execute(cmd, db, txn, inject)
                 nxt == LoopNext(r.ok, idx)
             IN  /\ txn' = r.txn
                 /\ calls' = Append(calls, Call("execute", cmd.table, r.ok))
                 /\ pc' = nxt.pc
                 /\ idx' = nxt.idx
          /\ faults' = IF inject THEN faults + 1 ELSE faults
    /\ UNCHANGED <<conn, cur, db, log, startups, dbBefore, outage, routes, req,
                   resp, store, result>>

\* print("Tables created or already exist.")
SetupPrintOk ==
    /\ pc = "print_ok"
    /\ log' = Append(log, "Tables created or already exist.")
    /\ pc' = "cur_close"
    /\ UNCHANGED <<conn, cur, idx, txn, db, calls, startups, dbBefore, faults,
                   outage, routes, req, resp, store, result>>

\* except (Exception, psycopg2.DatabaseError) as error: print(...)
SetupExcept ==
    /\ pc = "except"
    /\ log' = Append(log, "Error during table creation")
    /\ pc' = "cur_close"
    /\ UNCHANGED <<conn, cur, idx, txn, db, calls, startups, dbBefore, faults,
                   outage, routes, req, resp, store, result>>

\* finally: cur.close()
SetupCloseCursor ==
    /\ pc = "cur_close"
    /\ cur' = "closed"
    /\ calls' = Append(calls, Call("cur.close", "", TRUE))
    /\ pc' = "commit"
    /\ UNCHANGED <<conn, idx, txn, db, log, startups, dbBefore, faults,
                   outage, routes, req, resp, store, result>>

\* finally: conn.commit()
SetupCommit ==
    /\ pc = "commit"
    /\ db' = Commit(db, txn)
    /\ txn' = IdleTxn
    /\ calls' = Append(calls, Call("commit", "", TRUE))
    /\ pc' = "conn_close"
    /\ UNCHANGED <<conn, cur, idx, log, startups, dbBefore, faults,
                   outage, routes, req, resp, store, result>>

\* finally: conn.close(); setup_database returns.
SetupCloseConn ==
    /\ pc = "conn_close"
    /\ conn' = "closed"
    /\ calls' = Append(calls, Call("conn.close", "", TRUE))
    /\ pc' = "routes"
    /\ UNCHANGED <<cur, idx, txn, db, log, startups, dbBefore, faults,
                   outage, routes, req, resp, store, result>>

(***************************************************************************)
(* The routing layer.  A URL is a fixed path followed by at most one more  *)
(* segment (`tail`, a sequence of characters; <<>> when there is none).    *)
(***************************************************************************)
Digits == <<"0", "1", "2", "3", "4", "5", "6", "7", "8", "9">>

RECURSIVE FormatNat(_)
FormatNat(n) ==
    IF n < 10 THEN <<Digits[n + 1]>>
    ELSE FormatNat(n \div 10) \o <<Digits[(n % 10) + 1]>>

\* How a client writes the integer k into the URL: str(k).
FormatInt(k) == IF k < 0 THEN <<"-">> \o FormatNat(-k) ELSE FormatNat(k)

DigitValue(c) == (CHOOSE i \in DOMAIN Digits : Digits[i] = c) - 1

\* <int:set_id>: the converter matches the segment against \d+ ...
IntConverterMatches(tail) ==
    /\ Len(tail) > 0
    /\ \A i \in DOMAIN tail : tail[i] \in Range(Digits)

RECURSIVE ToPython(_)
\* ... and hands int(segment) to the view.
ToPython(tail) ==
    IF Len(tail) = 0 THEN 0
    ELSE 10 * ToPython(SubSeq(tail, 1, Len(tail) - 1)) + DigitValue(tail[Len(tail)])

\* @app.route(path, methods=[...]): HEAD is added to a rule that lists GET, and
\* OPTIONS to every rule (answered by the framework).
Rule(path, param, methods, endpoint) ==
    [path |-> path, param |-> param, endpoint |-> endpoint,
     methods |-> methods \cup (IF "GET" \in methods THEN {"HEAD"} ELSE {})
                         \cup {"OPTIONS"},
     automatic_options |-> "OPTIONS" \notin methods]

url_map == {
    Rule("/", FALSE, {"GET"}, "index"),
    Rule("/api/signup", FALSE, {"POST"}, "signup"),
    Rule("/api/login", FALSE, {"POST"}, "login"),
    Rule("/api/exams/live", FALSE, {"GET"}, "get_live_exam"),
    Rule("/api/exams/submit", FALSE, {"POST"}, "submit_exam"),
    Rule("/api/admin/question-sets", FALSE, {"POST", "GET"}, "manage_question_sets"),
    Rule("/api/admin/question-sets", TRUE, {"DELETE", "PUT"}, "manage_single_question_set"),
    Rule("/api/admin/questions", FALSE, {"POST"}, "add_question"),
    Rule("/api/admin/results", FALSE, {"GET"}, "get_all_results"),
    Rule("/api/leaderboard", FALSE, {"GET"}, "get_leaderboard"),
    Rule("/api/my-results", FALSE, {"GET"}, "get_my_results")}

Response(status, type, message, set_id) ==
    [status |-> status, type |-> type, message |-> message, set_id |-> set_id]

\* return jsonify({"message": message}), status
Jsonify(status, message, s) ==
    [response |-> Response(status, "json", message, {}), store |-> s]

JsonifySet(status, message, set_id, s) ==
    [response |-> Response(status, "json", message, Val(set_id)), store |-> s]

\* What the framework answers by itself.
NotFound(s) == [response |-> Response(404, "html", "Not Found", {}), store |-> s]
MethodNotAllowed(s) ==
    [response |-> Response(405, "html", "Method Not Allowed", {}), store |-> s]
AutomaticOptions(s) == [response |-> Response(200, "empty", "", {}), store |-> s]
\* A view that returns None: TypeError, answered as 500.
InternalServerError(s) ==
    [response |-> Response(500, "html", "Internal Server Error", {}), store |-> s]

(***************************************************************************)
(* The view functions.  Each gets the store as it is and returns its       *)
(* response and the store as it leaves it.                                 *)
(***************************************************************************)
indexNeedsTables(s) ==
    IF "users" \in TableNames(db)
    THEN Jsonify(200, "Welcome to the Python MCQ Exam API!", s)
    ELSE InternalServerError(s)

index(s) == Jsonify(200, "Welcome to the Python MCQ Exam API!", s)

signupInserts(s) ==
    Jsonify(501, "Signup endpoint not implemented yet.",
            [s EXCEPT !.users = @ \cup {[id |-> s.seq["users"] + 1,
                                         phone |-> Val("01700000002")]},
                      !.seq["users"] = @ + 1])

signup(s) == Jsonify(501, "Signup endpoint not implemented yet.", s)

loginAccepts(s) == Jsonify(200, "Login successful", s)

login(s) == Jsonify(501, "Login endpoint not implemented yet.", s)

get_live_exam(s) == Jsonify(501, "Get live exam endpoint not implemented yet.", s)

submit_exam(s) == Jsonify(501, "Submit exam endpoint not implemented yet.", s)

manage_question_sets(method, s) ==
    IF method = "POST" THEN Jsonify(501, "Create question set not implemented.", s)
    ELSE IF method = "GET" THEN Jsonify(501, "Get all question sets not implemented.", s)
    ELSE InternalServerError(s)

manage_single_question_set(method, set_id, s) ==
    IF method = "DELETE"
    THEN JsonifySet(501, "Delete set {set_id} not implemented.", set_id, s)
    ELSE IF method = "PUT"
    THEN JsonifySet(501, "Update set {set_id} not implemented.", set_id, s)
    ELSE InternalServerError(s)

add_question(s) == Jsonify(501, "Add question endpoint not implemented.", s)

get_all_results(s) == Jsonify(501, "Get all results endpoint not implemented.", s)

get_leaderboard(s) == Jsonify(501, "Leaderboard endpoint not implemented.", s)

get_my_results(s) == Jsonify(501, "My results endpoint not implemented.", s)

CallView(endpoint, method, tail, s) ==
    CASE endpoint = "index" -> index(s)
      [] endpoint = "signup" -> signup(s)
      [] endpoint = "login" -> login(s)
      [] endpoint = "get_live_exam" -> get_live_exam(s)
      [] endpoint = "submit_exam" -> submit_exam(s)
      [] endpoint = "manage_question_sets" -> manage_question_sets(method, s)
      [] endpoint = "manage_single_question_set" ->
            manage_single_question_set(method, ToPython(tail), s)
      [] endpoint = "add_question" -> add_question(s)
      [] endpoint = "get_all_results" -> get_all_results(s)
      [] endpoint = "get_leaderboard" -> get_leaderboard(s)
      [] endpoint = "get_my_results" -> get_my_results(s)

RuleMatches(rule, r) ==
    /\ rule.path = r.path
    /\ IF rule.param THEN IntConverterMatches(r.tail) ELSE r.tail = <<>>

\* A HEAD request is answered with the status of the response and no body.
Finalize(method, out) ==
    IF method = "HEAD"
    THEN [out EXCEPT !.response = Response(out.response.status, "empty", "", {})]
    ELSE out

\* The application's handling of one request against the registered rules.
Dispatch(rules, r, s) ==
    LET byPath == {rule \in rules : RuleMatches(rule, r)}
        allowed == {rule \in byPath : r.method \in rule.methods}
    IN  IF byPath = {} THEN Finalize(r.method, NotFound(s))
        ELSE IF allowed = {} THEN Finalize(r.method, MethodNotAllowed(s))
        ELSE LET rule == CHOOSE x \in allowed : TRUE
             IN  IF r.method = "OPTIONS" /\ rule.automatic_options
                 THEN AutomaticOptions(s)
                 ELSE Finalize(r.method, CallView(rule.endpoint, r.method, r.tail, s))

(***************************************************************************)
(* The requests a client sends.                                            *)
(***************************************************************************)
Methods == {"GET", "POST", "PUT", "DELETE", "HEAD", "OPTIONS"}

Paths == {rule.path : rule \in url_map} \cup {"/api/unknown"}

Tails == {FormatInt(k) : k \in (0 - MaxSetId)..MaxSetId} \cup {<<"x">>, <<"0", "1">>}

Requests ==
    {[method |-> m, path |-> p, tail |-> <<>>] : m \in Methods, p \in Paths}
    \cup {[method |-> m, path |-> "/api/admin/question-sets", tail |-> t] :
            m \in Methods, t \in Tails}

\* The decorators run at import, after setup_database returned.
RegisterRoutes ==
    /\ pc = "routes"
    /\ routes' = url_map
    /\ pc' = "run"
    /\ UNCHANGED <<conn, cur, idx, txn, db, log, calls, startups, dbBefore, faults,
                   outage, req, resp, store, result>>

\* app.run(host='0.0.0.0', port=port)
Run ==
    /\ pc = "run"
    /\ pc' = "serving"
    /\ UNCHANGED <<conn, cur, idx, txn, db, log, calls, startups, dbBefore, faults,
                   outage, routes, req, resp, store, result>>

Serve ==
    /\ pc = "serving"
    /\ \E r \in Requests :
          LET out == Dispatch(routes, r, store)
          IN  /\ req' = r
              /\ resp' = out.response
              /\ store' = out.store
    /\ UNCHANGED <<pc, conn, cur, idx, txn, db, log, calls, startups, dbBefore,
                   faults, outage, routes, result>>

\* The process is stopped and started again against the same database.
Restart ==
    /\ pc = "serving"
    /\ startups < MaxStartups
    /\ startups' = startups + 1
    /\ pc' = "import"
    /\ conn' = "none"
    /\ cur' = "none"
    /\ idx' = 1
    /\ txn' = IdleTxn
    /\ log' = <<>>
    /\ calls' = <<>>
    /\ routes' = {}
    /\ dbBefore' = db
    /\ UNCHANGED <<db, faults, outage, req, resp, store, result>>

Next ==
    \/ GetDbConnection
    \/ SetupCheckConn
    \/ SetupCursor
    \/ SetupExecute
    \/ SetupPrintOk
    \/ SetupExcept
    \/ SetupCloseCursor
    \/ SetupCommit
    \/ SetupCloseConn
    \/ RegisterRoutes
    \/ Run
    \/ Serve
    \/ Restart

Spec == Init /\ [][Next]_vars

(***************************************************************************)
(* Rows under the created schema.  A client of the database runs INSERT,   *)
(* UPDATE and DELETE statements; the server enforces what the catalog      *)
(* declares.  A row carries its key and the columns the DDL constrains     *)
(* across rows: users (id, phone), question_sets (id), questions (id,      *)
(* set_id), results (id, user_id, set_id).                                 *)
(***************************************************************************)
Phones == {"01700000001", "01700000002"}

TableDef(cat, t) == CHOOSE c \in cat : c.table = t

Constrained(def, row) == {col \in def.columns : ~col.primary /\ col.name \in DOMAIN row}

NotNullOK(def, row) ==
    \A col \in Constrained(def, row) : col.notnull => row[col.name] # NULL

UniqueOKDisabled(def, rows, row) == TRUE

UniqueOK(def, rows, row) ==
    \A col \in Constrained(def, row) :
        col.unique =>
            \/ row[col.name] = NULL
            \/ \A other \in rows : other.id # row.id => other[col.name] # row[col.name]

ForeignKeysOK(def, s, row) ==
    \A col \in Constrained(def, row) :
        \A r \in col.references :
            \/ row[col.name] = NULL
            \/ \E parent \in s[r.table] : Val(parent[r.column]) = row[col.name]

\* SQLSTATE of storing `row` in table t: NOT NULL, then UNIQUE, then REFERENCES.
Check(cat, s, t, row) ==
    LET def == TableDef(cat, t) IN
    IF ~NotNullOK(def, row) THEN "not_null_violation"
    ELSE IF ~UniqueOK(def, s[t], row) THEN "unique_violation"
    ELSE IF ~ForeignKeysOK(def, s, row) THEN "foreign_key_violation"
    ELSE "ok"

UserRefs == {NULL} \cup {Val(k) : k \in 1..MaxUsers}
SetRefs == {NULL} \cup {Val(k) : k \in 1..MaxSeq}
PhoneValues == {NULL} \cup {Val(p) : p \in Phones}

\* The rows an INSERT INTO t may offer; id is the SERIAL default.
NewRows(t, id) ==
    CASE t = "users" -> {[id |-> id, phone |-> p] : p \in PhoneValues}
      [] t = "question_sets" -> {[id |-> id]}
      [] t = "questions" -> {[id |-> id, set_id |-> v] : v \in SetRefs}
      [] t = "results" ->
            {[id |-> id, user_id |-> u, set_id |-> v] : u \in UserRefs, v \in SetRefs}

\* The rows UPDATE t SET column = value WHERE id = row.id may turn `row` into.
Updated(t, row) ==
    CASE t = "users" -> {[row EXCEPT !.phone = p] : p \in PhoneValues}
      [] t = "question_sets" -> {}
      [] t = "questions" -> {[row EXCEPT !.set_id = v] : v \in SetRefs}
      [] t = "results" ->
            {[row EXCEPT !.user_id = u] : u \in UserRefs}
            \cup {[row EXCEPT !.set_id = v] : v \in SetRefs}

\* The cap on the id sequence of table t.
SeqCap(t) == IF t = "users" THEN MaxUsers ELSE MaxSeq

TotalRows(s) == Cardinality(s.users) + Cardinality(s.question_sets)
                + Cardinality(s.questions) + Cardinality(s.results)

\* The rows of table c that reference `row` of table t, per action on delete.
Children(cat, s, t, row, action) ==
    [c \in Tables |->
        IF c \notin TableNames(cat) THEN {}
        ELSE {child \in s[c] :
                \E col \in Constrained(TableDef(cat, c), child) :
                    \E r \in col.references :
                        /\ r.table = t
                        /\ r.ondelete = action
                        /\ child[col.name] = Val(row[r.column])}]

Count(f) == Cardinality(f["users"]) + Cardinality(f["question_sets"])
            + Cardinality(f["questions"]) + Cardinality(f["results"])

InsertRow ==
    /\ pc = "serving"
    /\ \E t \in TableNames(db) :
          /\ store.seq[t] < SeqCap(t)
          /\ TotalRows(store) < MaxRows
          /\ \E row \in NewRows(t, store.seq[t] + 1) :
                LET status == Check(db, store, t, row)
                    s1 == [store EXCEPT !.seq[t] = @ + 1]
                IN  /\ store' = IF status = "ok" THEN [s1 EXCEPT ![t] = @ \cup {row}]
                                ELSE s1
                    /\ result' = [op |-> "insert", table |-> t, status |-> status,
                                   cascaded |-> 0]
    /\ UNCHANGED <<procVars, db, req, resp>>

UpdateRow ==
    /\ pc = "serving"
    /\ \E t \in TableNames(db) :
          \E old \in store[t] :
             \E row \in Updated(t, old) :
                LET status == Check(db, store, t, row)
                IN  /\ store' = IF status = "ok"
                                THEN [store EXCEPT ![t] = (@ \ {old}) \cup {row}]
                                ELSE store
                    /\ result' = [op |-> "update", table |-> t, status |-> status,
                                   cascaded |-> 0]
    /\ UNCHANGED <<procVars, db, req, resp>>

DeleteRow ==
    /\ pc = "serving"
    /\ \E t \in TableNames(db) :
          \E row \in store[t] :
             LET blocking == Children(db, store, t, row, "NO ACTION")
                 cascade == Children(db, store, t, row, "CASCADE")
             IN  IF Count(blocking) > 0
                 THEN /\ store' = store
                      /\ result' = [op |-> "delete", table |-> t,
                                    status |-> "foreign_key_violation", cascaded |-> 0]
                 ELSE /\ store' = [c \in DOMAIN store |->
                                     IF c = "seq" THEN store.seq
                                     ELSE IF c = t THEN (store[c] \ {row}) \ cascade[c]
                                     ELSE store[c] \ cascade[c]]
                      /\ result' = [op |-> "delete", table |-> t, status |-> "ok",
                                    cascaded |-> Count(cascade)]
    /\ UNCHANGED <<procVars, db, req, resp>>

\* The state a first startup against a reachable, empty database ends in.
RowInit ==
    /\ pc = "serving"
    /\ conn = "closed"
    /\ cur = "closed"
    /\ idx = Len(commands)
    /\ txn = IdleTxn
    /\ db = Commit({}, [state |-> "active", created |-> Range(commands)])
    /\ store = EmptyStore
    /\ log = <<"Tables created or already exist.">>
    /\ calls = <<Call("connect", "", TRUE), Call("cursor", "", TRUE)>>
               \o [i \in DOMAIN commands |-> Call("execute", commands[i].table, TRUE)]
               \o <<Call("cur.close", "", TRUE), Call("commit", "", TRUE),
                    Call("conn.close", "", TRUE)>>
    /\ startups = 1
    /\ dbBefore = {}
    /\ faults = 0
    /\ outage = FALSE
    /\ routes = url_map
    /\ req = NoRequest
    /\ resp = NoResponse
    /\ result = NoStatement

RowNext == InsertRow \/ UpdateRow \/ DeleteRow

RowSpec == RowInit /\ [][RowNext]_vars

(***************************************************************************)
(* Properties.                                                             *)
(***************************************************************************)
IsExecute(c) == c.op = "execute"
Executes == SelectSeq(calls, IsExecute)
SetupReturned == pc \in {"routes", "run", "serving"}
StatementFailed == \E i \in DOMAIN Executes : ~Executes[i].ok
ConnectFailed == Len(calls) > 0 /\ calls[1].op = "connect" /\ ~calls[1].ok

FourTables == {"users", "question_sets", "questions", "results"}

DocumentedColumns(t) ==
    CASE t = "users" -> {"id", "name", "phone", "password_hash", "school", "points",
                         "level", "created_at"}
      [] t = "question_sets" -> {"id", "name", "category", "is_active",
                                 "exam_time_minutes", "created_at"}
      [] t = "questions" -> {"id", "set_id", "question_text", "options", "correct_option"}
      [] t = "results" -> {"id", "user_id", "set_id", "score", "total_marks",
                           "submitted_at"}

\* C1: as long as the database was reachable at every startup and the server
\* raised no statement error, once setup_database has returned the database holds
\* exactly the four tables with the documented columns, no failure was printed,
\* and a second or later startup left the catalog as it found it.
C1_StartupIdempotent ==
    (SetupReturned /\ faults = 0 /\ ~outage) =>
        /\ TableNames(db) = FourTables
        /\ Cardinality(db) = 4
        /\ \A c \in db : {col.name : col \in c.columns} = DocumentedColumns(c.table)
        /\ log = <<"Tables created or already exist.">>
        /\ startups > 1 => db = dbBefore

\* A second startup has returned against a database that started empty.
C1_Witness ==
    /\ SetupReturned /\ faults = 0 /\ ~outage
    /\ startups = 2
    /\ store = EmptyStore
    /\ TableNames(db) = FourTables
    /\ Len(Executes) = 4

\* C2: when psycopg2.connect fails, get_db_connection returns None and
\* setup_database prints and returns: no cursor, no statement, no commit, no close,
\* the catalog is as before, and the process goes on to register its routes and
\* serve.
C2_UnreachableAborts ==
    ConnectFailed =>
        /\ conn = "none"
        /\ cur = "none"
        /\ txn = IdleTxn
        /\ Len(calls) = 1
        /\ db = dbBefore
        /\ pc \in {"check", "routes", "run", "serving"}
        /\ pc # "check" =>
              log = <<"Database connection error",
                      "Could not connect to the database. Aborting setup.">>
        /\ pc = "serving" => routes = url_map
        /\ pc # "serving" => ENABLED (SetupCheckConn \/ RegisterRoutes \/ Run)

\* The database was unreachable and the process answers a request.
C2_Witness ==
    /\ ConnectFailed
    /\ pc = "serving"
    /\ req # NoRequest
    /\ resp.status = 501

DeclaredFixed == {
    <<"POST", "/api/signup">>, <<"POST", "/api/login">>, <<"GET", "/api/exams/live">>,
    <<"POST", "/api/exams/submit">>, <<"POST", "/api/admin/question-sets">>,
    <<"GET", "/api/admin/question-sets">>, <<"POST", "/api/admin/questions">>,
    <<"GET", "/api/admin/results">>, <<"GET", "/api/leaderboard">>,
    <<"GET", "/api/my-results">>}

\* PUT or DELETE on /api/admin/question-sets/{id} with id drawn from `ids`.
IsSingleSetRequest(r, ids) ==
    /\ r.method \in {"PUT", "DELETE"}
    /\ r.path = "/api/admin/question-sets"
    /\ \E k \in ids : r.tail = FormatInt(k)

NotImplemented(r) == r.status = 501 /\ r.type = "json" /\ r.message # ""

\* C3 as stated: each of the twelve declared method and path pairs, with every
\* integer id, is answered 501 with a JSON message.
C3_EveryIntegerId ==
    (\/ (req.tail = <<>> /\ <<req.method, req.path>> \in DeclaredFixed)
     \/ IsSingleSetRequest(req, (0 - MaxSetId)..MaxSetId))
        => NotImplemented(resp)

\* C3 amended: each of the twelve declared method and path pairs, with every
\* non-negative integer id, is answered 501 with a JSON message, whatever the state
\* of the database.
C3_NotImplemented ==
    (\/ (req.tail = <<>> /\ <<req.method, req.path>> \in DeclaredFixed)
     \/ IsSingleSetRequest(req, 0..MaxSetId))
        => NotImplemented(resp)

\* DELETE of a set by id is answered while the database holds no table.
C3_Witness ==
    /\ IsSingleSetRequest(req, 1..MaxSetId)
    /\ req.method = "DELETE"
    /\ resp.status = 501
    /\ resp.set_id = Val(MaxSetId)
    /\ pc = "serving"
    /\ db = {}

IsGetRoot(r) == r.method = "GET" /\ r.path = "/" /\ r.tail = <<>>

\* C4: GET / is answered 200 with the welcome message as JSON, in every state of
\* the database.
C4_Welcome ==
    IsGetRoot(req) =>
        resp = Response(200, "json", "Welcome to the Python MCQ Exam API!", {})

\* GET / is answered after one startup found the database unreachable and this
\* one failed to create the tables.
C4_Witness ==
    /\ IsGetRoot(req)
    /\ resp.status = 200
    /\ pc = "serving"
    /\ outage
    /\ StatementFailed
    /\ db = {}

\* C7 as stated: when a statement fails, the error is printed, the connection is
\* committed and closed, and the tables the earlier statements of this startup
\* created are in the database after setup_database has returned.
C7_PartialCommit ==
    (SetupReturned /\ StatementFailed) =>
        /\ "Error during table creation" \in Range(log)
        /\ \E i \in DOMAIN calls : calls[i].op = "commit"
        /\ conn = "closed"
        /\ \A i \in DOMAIN Executes :
              Executes[i].ok => Executes[i].table \in TableNames(db)

\* What the code does on a statement failure: the error is printed, commit and
\* close are called, and the catalog is as it was before this startup.
C7_FailureRollsBack ==
    (SetupReturned /\ StatementFailed) =>
        /\ "Error during table creation" \in Range(log)
        /\ \E i \in DOMAIN calls : calls[i].op = "commit"
        /\ conn = "closed"
        /\ db = dbBefore

CreateOrder == <<"users", "question_sets", "questions", "results">>

\* C10: the create statements run in the order users, question_sets, questions,
\* results; a statement runs only if every earlier one succeeded; questions and
\* results are attempted only with users and question_sets visible; nothing runs
\* after a failed statement.
C10_OrderedStopAtFirstFailure ==
    /\ Len(Executes) <= Len(CreateOrder)
    /\ \A i \in DOMAIN Executes :
          /\ Executes[i].table = CreateOrder[i]
          /\ i < Len(Executes) => Executes[i].ok
    /\ (pc = "loop" /\ commands[idx].table \in {"questions", "results"}) =>
          {"users", "question_sets"} \subseteq TableNames(Visible(db, txn))
    /\ StatementFailed => pc # "loop"

\* The third statement failed after two succeeded, and setup went on to its end.
C10_Witness ==
    /\ Len(Executes) = 3
    /\ Executes[1].ok /\ Executes[2].ok /\ ~Executes[3].ok
    /\ SetupReturned

\* C9: a request changes nothing but the record of the last request and its
\* response: no table, no row, no process variable; and the same request gets
\* the same response whatever happened in between.
C9_Stateless ==
    [][/\ (pc = "serving" /\ pc' = "serving") =>
             /\ store' = store
             /\ db' = db
             /\ procVars' = procVars
             /\ result' = result
       /\ (req' = req /\ req # NoRequest) => resp' = resp]_vars

\* POST /api/signup is answered by a restarted process over a filled database.
C9_Witness ==
    /\ pc = "serving"
    /\ startups = 2
    /\ req.method = "POST" /\ req.path = "/api/signup"
    /\ resp.status = 501
    /\ store = SampleStore

Ids(rows) == {r.id : r \in rows}

Refers(v, rows) == \E parent \in rows : v = Val(parent.id)

NoDanglingReference(s) ==
    /\ \A q \in s.questions : q.set_id = NULL \/ Refers(q.set_id, s.question_sets)
    /\ \A r \in s.results :
          /\ r.set_id = NULL \/ Refers(r.set_id, s.question_sets)
          /\ r.user_id = NULL \/ Refers(r.user_id, s.users)

\* C5: no question or result holds a non-null set_id or user_id naming a row that
\* does not exist; a DELETE of a question set or of a user is carried out; and once
\* a set (a user) is gone, so is every question and result of that set (every
\* result of that user).
C5_CascadeDelete ==
    /\ [](NoDanglingReference(store))
    /\ []((result.op = "delete" /\ result.table \in {"question_sets", "users"})
             => result.status = "ok")
    /\ [][/\ \A k \in Ids(store.question_sets) \ Ids(store'.question_sets) :
                /\ \A q \in store'.questions : q.set_id # Val(k)
                /\ \A r \in store'.results : r.set_id # Val(k)
          /\ \A k \in Ids(store.users) \ Ids(store'.users) :
                \A r \in store'.results : r.user_id # Val(k)]_vars

\* A question set was deleted and took its question and its result with it.
C5_Witness ==
    /\ result.op = "delete"
    /\ result.table = "question_sets"
    /\ result.status = "ok"
    /\ result.cascaded = 2
    /\ store.questions = {} /\ store.results = {}

\* C6: every user has a phone, no two users have the same phone, and a statement
\* on users that is rejected for a duplicate or missing phone leaves the rows of
\* users as they were.
C6_PhoneUnique ==
    /\ [](\A u \in store.users :
             /\ u.phone # NULL
             /\ \A v \in store.users : u.id # v.id => u.phone # v.phone)
    /\ [][(result'.table = "users"
           /\ result'.status \in {"unique_violation", "not_null_violation"})
             => store'.users = store.users]_vars

\* An UPDATE that would give one user the phone of another was rejected.
C6_Witness ==
    /\ result.op = "update"
    /\ result.table = "users"
    /\ result.status = "unique_violation"
    /\ Cardinality(store.users) = 2

\* C8 as stated: every question names one existing question set, and every result
\* names one existing user and one existing question set.
C8_EveryRowHasParents ==
    /\ \A q \in store.questions : Refers(q.set_id, store.question_sets)
    /\ \A r \in store.results :
          /\ Refers(r.user_id, store.users)
          /\ Refers(r.set_id, store.question_sets)

====
